---- MODULE Spec2Model ----
(***************************************************************************)
(* State-machine model of the RAG pipeline of the Sales Agent application: *)
(*   tools/document_reader_tool.py  DocumentReaderTool (text extraction)   *)
(*   tools/rag_manager.py           get_rag_tool (read, split, embed,      *)
(*                                   store, build the retriever tool)      *)
(*                                                                         *)
(* Strings are modelled as sequences of atoms (string fragments), so that  *)
(* formatting (the f-strings of the error messages), concatenation and     *)
(* str.startswith are computed and not assumed.  The atoms "Error" and ":" *)
(* are always kept apart, so that "Error:" and "Error reading" differ from *)
(* the second atom on, as the Python strings differ from the 6th character.*)
(***************************************************************************)
EXTENDS Integers, Sequences, FiniteSets

\* Number of get_rag_tool invocations in a run; each may overlap the others.
MaxInvocations == 2
\* Size of a chunk in atoms: the scaled stand-in for chunk_size=1000 characters.
ChunkAtoms == 2
\* search_kwargs={"k": 5}
K == 5

Invocations == 1..MaxInvocations

---------------------------------------------------------------------------
(* Files the caller may pass.  ext is what os.path.splitext returns for    *)
(* path; kind "corrupt" is a file on which the format library raises with  *)
(* message err; parts are the page texts (PDF), the paragraph texts (DOCX) *)
(* or the single content (TXT).                                            *)

File(path, ext, exists, kind, err, parts) ==
    [path |-> path, ext |-> ext, exists |-> exists, kind |-> kind,
     err |-> err, parts |-> parts]

Files ==
    { File("temp/gone.txt", ".txt", FALSE, "ok", "", <<>>),
      File("temp/gone.csv", ".csv", FALSE, "ok", "", <<>>),
      File("temp/data.csv", ".csv", TRUE, "ok", "", << <<"a,b">> >>),
      File("temp/sky.txt", ".txt", TRUE, "ok", "",
           << <<"The sky is blue.", " ", "The grass is green.", " ",
                "CrewAI is a framework for AI agents.">> >>),
      File("temp/empty.txt", ".txt", TRUE, "ok", "", << <<>> >>),
      File("temp/log.txt", ".txt", TRUE, "ok", "",
           << <<"Error", ":", " disk quota exceeded">> >>),
      File("temp/scan.PDF", ".PDF", TRUE, "ok", "", << <<>>, <<>> >>),
      File("temp/brochure.pdf", ".pdf", TRUE, "ok", "",
           << <<"Course overview">>, <<>>, <<"Fees">> >>),
      File("temp/blank.docx", ".docx", TRUE, "ok", "", << <<>> >>),
      File("temp/broken.docx", ".docx", TRUE, "corrupt", "File is not a zip file", <<>>) }

NoFile == File("", "", FALSE, "ok", "", <<>>)

Queries == {"", "What color is the sky?"}

---------------------------------------------------------------------------
(* tools/document_reader_tool.py                                           *)

\* str.lower on the extensions that occur
lower(ext) ==
    CASE ext = ".PDF" -> ".pdf"
      [] ext = ".DOCX" -> ".docx"
      [] ext = ".TXT" -> ".txt"
      [] OTHER -> ext

\* A call's outcome: a returned string, or a raised Exception with its str().
Return(text) == [raised |-> FALSE, val |-> text]
Raise(text) == [raised |-> TRUE, val |-> text]

\* the loop of _read_pdf: pages with no text are skipped
RECURSIVE pdf_pages(_)
pdf_pages(pages) ==
    IF pages = <<>> THEN <<>>
    ELSE LET page_text == Head(pages)
         IN  (IF page_text # <<>> THEN page_text \o <<"\n">> ELSE <<>>)
             \o pdf_pages(Tail(pages))

_read_pdf(f) ==
    IF f.kind = "corrupt"
    THEN Raise(<<"Failed to read PDF: ", f.err>>)
    ELSE Return(pdf_pages(f.parts))

\* the loop of _read_docx: every paragraph adds its text and a newline
RECURSIVE docx_paragraphs(_)
docx_paragraphs(paras) ==
    IF paras = <<>> THEN <<>>
    ELSE Head(paras) \o <<"\n">> \o docx_paragraphs(Tail(paras))

_read_docx(f) ==
    IF f.kind = "corrupt"
    THEN Raise(<<"Failed to read DOCX: ", f.err>>)
    ELSE Return(docx_paragraphs(f.parts))

_read_txt(f) ==
    IF f.kind = "corrupt"
    THEN Raise(<<"Failed to read TXT: ", f.err>>)
    ELSE Return(f.parts[1])

FileNotFoundMessage(f) == <<"Error", ":", " File not found at path: ", f.path>>

UnsupportedMessage(file_extension) ==
    <<"Error", ":", " Unsupported file type: ", file_extension,
      ". Only .pdf, .docx, and .txt are supported.">>

ReadingFailedMessage(f, e) == <<"Error", " reading file ", f.path, ": ">> \o e

\* the plausible slip of dispatching on the extension before the existence check
DispatchFirst_run(f) ==
    LET file_extension == lower(f.ext)
    IN  IF file_extension \notin {".pdf", ".docx", ".txt"}
        THEN UnsupportedMessage(file_extension)
        ELSE IF ~f.exists THEN FileNotFoundMessage(f)
        ELSE LET r == CASE file_extension = ".pdf" -> _read_pdf(f)
                        [] file_extension = ".docx" -> _read_docx(f)
                        [] OTHER -> _read_txt(f)
             IN  IF r.raised THEN ReadingFailedMessage(f, r.val) ELSE r.val

\* DocumentReaderTool._run
_run(f) ==
    IF ~f.exists THEN FileNotFoundMessage(f)
    ELSE LET file_extension == lower(f.ext)
         IN  IF file_extension \notin {".pdf", ".docx", ".txt"}
             THEN UnsupportedMessage(file_extension)
             ELSE LET r == CASE file_extension = ".pdf" -> _read_pdf(f)
                             [] file_extension = ".docx" -> _read_docx(f)
                             [] OTHER -> _read_txt(f)
                  IN  IF r.raised THEN ReadingFailedMessage(f, r.val) ELSE r.val

---------------------------------------------------------------------------
(* tools/rag_manager.py: get_rag_tool                                      *)

VARIABLES
    pc,             \* where each invocation of get_rag_tool stands
    exit,           \* the stage at which the invocation left get_rag_tool
    file,           \* file_path argument (the file it names)
    document_text,  \* local document_text
    docs,           \* local docs: the chunks
    embeddings,     \* whether HuggingFaceEmbeddings was constructed
    client,         \* state of the invocation's MongoClient: none, open, closed
    cleared,        \* whether the invocation's delete_many completed
    stored,         \* how many of its chunks the invocation inserted
    tool,           \* the BaseTool the invocation returned
    collection,     \* db[collection_name]: the set of stored records
    out,            \* the latest tool call: who, query, returned text, returned hits
    overlapped,     \* history: some invocation started while another was running
    last            \* history: the invocation that started most recently

vars == <<pc, exit, file, document_text, docs, embeddings, client, cleared,
          stored, tool, collection, out, overlapped, last>>

NoTool == [name |-> "", description |-> "", msg |-> <<>>]

\* class ErrorTool(BaseTool) of the read branch; _run returns document_text
ReadErrorTool(text) ==
    [name |-> "Error Tool",
     description |-> "A dummy tool that reports a document reading error.",
     msg |-> text]

SplitErrorMessage == <<"Error", ":", " Could not split document into text chunks.">>

\* class ErrorTool(BaseTool) of the split branch
SplitErrorTool ==
    [name |-> "Error Tool",
     description |-> "A dummy tool that reports a document splitting error.",
     msg |-> SplitErrorMessage]

\* create_retriever_tool(retriever, "document_query_tool", ...)
document_query_tool ==
    [name |-> "document_query_tool",
     description |-> "A tool to query the uploaded document.",
     msg |-> <<>>]

\* document_text.startswith("Error:")
startswith_Error(text) ==
    Len(text) >= 2 /\ text[1] = "Error" /\ text[2] = ":"

Whitespace == {"\n", " ", ""}

\* RecursiveCharacterTextSplitter(...).split_documents: the separators are
\* consumed, blank pieces are dropped, the rest is packed into chunks; every
\* chunk carries the metadata of the document it came from.
split_documents(text, source) ==
    LET body == SelectSeq(text, LAMBDA a : a \notin Whitespace)
        n == (Len(body) + ChunkAtoms - 1) \div ChunkAtoms
    IN  [i \in 1..n |->
            [page_content |->
                SubSeq(body, (i - 1) * ChunkAtoms + 1,
                       IF i * ChunkAtoms < Len(body) THEN i * ChunkAtoms ELSE Len(body)),
             source |-> source]]

\* A record of the collection: the chunk's text and metadata; inv and idx
\* stand for the _id MongoDB gives it (which insert made it).
Entry(p, i, doc) ==
    [inv |-> p, idx |-> i, text |-> doc.page_content, source |-> doc.source]

\* What the collection may hold before the first invocation.
PriorEntry == [inv |-> 0, idx |-> 1, text |-> <<"old">>, source |-> "temp/old.txt"]

Active(q) == pc[q] \notin {"idle", "returned", "raised"}

Init ==
    /\ pc = [p \in Invocations |-> "idle"]
    /\ exit = [p \in Invocations |-> "NONE"]
    /\ file = [p \in Invocations |-> NoFile]
    /\ document_text = [p \in Invocations |-> <<>>]
    /\ docs = [p \in Invocations |-> <<>>]
    /\ embeddings = [p \in Invocations |-> FALSE]
    /\ client = [p \in Invocations |-> "none"]
    /\ cleared = [p \in Invocations |-> FALSE]
    /\ stored = [p \in Invocations |-> 0]
    /\ tool = [p \in Invocations |-> NoTool]
    /\ collection \in {{}, {PriorEntry}}
    /\ out = [inv |-> 0, query |-> "", text |-> <<>>, hits |-> {}]
    /\ overlapped = FALSE
    /\ last = 0

\* return <tool>
ReturnTool(p, stage, t) ==
    /\ pc' = [pc EXCEPT ![p] = "returned"]
    /\ exit' = [exit EXCEPT ![p] = stage]
    /\ tool' = [tool EXCEPT ![p] = t]

\* an exception leaves get_rag_tool (no try/except in the function)
Propagate(p, stage) ==
    /\ pc' = [pc EXCEPT ![p] = "raised"]
    /\ exit' = [exit EXCEPT ![p] = stage]
    /\ UNCHANGED tool

Goto(p, label) ==
    /\ pc' = [pc EXCEPT ![p] = label]
    /\ UNCHANGED <<exit, tool>>

\* the plausible slip of clearing the collection as the first thing
ClearFirstReadStage(p) ==
    /\ pc[p] = "idle"
    /\ \E f \in Files :
         LET text == _run(f)
         IN  /\ file' = [file EXCEPT ![p] = f]
             /\ document_text' = [document_text EXCEPT ![p] = text]
             /\ IF startswith_Error(text)
                THEN ReturnTool(p, "READ", ReadErrorTool(text))
                ELSE Goto(p, "split")
    /\ collection' = {}
    /\ overlapped' = (overlapped \/ \E q \in Invocations : Active(q))
    /\ last' = p
    /\ UNCHANGED <<docs, embeddings, client, cleared, stored, out>>

\* 1. Read Document: the call of get_rag_tool, reader_tool._run, the check
ReadStage(p) ==
    /\ pc[p] = "idle"
    /\ \E f \in Files :
         LET text == _run(f)
         IN  /\ file' = [file EXCEPT ![p] = f]
             /\ document_text' = [document_text EXCEPT ![p] = text]
             /\ IF startswith_Error(text)
                THEN ReturnTool(p, "READ", ReadErrorTool(text))
                ELSE Goto(p, "split")
    /\ overlapped' = (overlapped \/ \E q \in Invocations : Active(q))
    /\ last' = p
    /\ UNCHANGED <<docs, embeddings, client, cleared, stored, collection, out>>

\* the plausible slip of leaving out the "if not docs" check
UncheckedSplitStage(p) ==
    /\ pc[p] = "split"
    /\ docs' = [docs EXCEPT ![p] = split_documents(document_text[p], file[p].path)]
    /\ Goto(p, "embed")
    /\ UNCHANGED <<file, document_text, embeddings, client, cleared, stored,
                   collection, out, overlapped, last>>

\* 2. Split Text
SplitStage(p) ==
    /\ pc[p] = "split"
    /\ LET d == split_documents(document_text[p], file[p].path)
       IN  /\ docs' = [docs EXCEPT ![p] = d]
           /\ IF d = <<>>
              THEN ReturnTool(p, "SPLIT", SplitErrorTool)
              ELSE Goto(p, "embed")
    /\ UNCHANGED <<file, document_text, embeddings, client, cleared, stored,
                   collection, out, overlapped, last>>

\* 3. Initialize Embeddings: the model is loaded, or the constructor raises
InitEmbeddings(p) ==
    /\ pc[p] = "embed"
    /\ \/ /\ embeddings' = [embeddings EXCEPT ![p] = TRUE]
          /\ Goto(p, "connect")
       \/ /\ UNCHANGED embeddings
          /\ Propagate(p, "EMBED")
    /\ UNCHANGED <<file, document_text, docs, client, cleared, stored,
                   collection, out, overlapped, last>>

\* 4. Connect to MongoDB: MongoClient(mongo_uri) or it raises (invalid URI)
Connect(p) ==
    /\ pc[p] = "connect"
    /\ \/ /\ client' = [client EXCEPT ![p] = "open"]
          /\ Goto(p, "clear")
       \/ /\ UNCHANGED client
          /\ Propagate(p, "CONNECT")
    /\ UNCHANGED <<file, document_text, docs, embeddings, cleared, stored,
                   collection, out, overlapped, last>>

\* the divergent implementation that does not clear the collection
KeepOldData(p) ==
    /\ pc[p] = "clear"
    /\ \/ /\ UNCHANGED collection
          /\ cleared' = [cleared EXCEPT ![p] = TRUE]
          /\ Goto(p, "store")
       \/ /\ UNCHANGED <<collection, cleared>>
          /\ Propagate(p, "CLEAR")
    /\ UNCHANGED <<file, document_text, docs, embeddings, client, stored,
                   out, overlapped, last>>

\* 5. Clear Old Data: collection.delete_many({}) or it raises (unreachable host)
ClearOldData(p) ==
    /\ pc[p] = "clear"
    /\ \/ /\ collection' = {}
          /\ cleared' = [cleared EXCEPT ![p] = TRUE]
          /\ Goto(p, "store")
       \/ /\ UNCHANGED <<collection, cleared>>
          /\ Propagate(p, "CLEAR")
    /\ UNCHANGED <<file, document_text, docs, embeddings, client, stored,
                   out, overlapped, last>>

\* 6. Embed and Store: MongoDBAtlasVectorSearch.from_documents inserts every
\* chunk, or raises with the chunks inserted so far left in the collection
EmbedAndStore(p) ==
    /\ pc[p] = "store"
    /\ \/ /\ stored' = [stored EXCEPT ![p] = Len(docs[p])]
          /\ collection' = collection \cup
                {Entry(p, i, docs[p][i]) : i \in 1..Len(docs[p])}
          /\ Goto(p, "retriever")
       \/ \E n \in 0..(Len(docs[p]) - 1) :
             /\ stored' = [stored EXCEPT ![p] = n]
             /\ collection' = collection \cup {Entry(p, i, docs[p][i]) : i \in 1..n}
             /\ Propagate(p, "STORE")
    /\ UNCHANGED <<file, document_text, docs, embeddings, client, cleared,
                   out, overlapped, last>>

\* 7. Create Retriever Tool: vector_search.as_retriever(...)
BuildRetriever(p) ==
    /\ pc[p] = "retriever"
    /\ \/ Goto(p, "tool")
       \/ Propagate(p, "BUILD_RETRIEVER")
    /\ UNCHANGED <<file, document_text, docs, embeddings, client, cleared, stored,
                   collection, out, overlapped, last>>

\* create_retriever_tool(...) and return document_query_tool
CreateRetrieverTool(p) ==
    /\ pc[p] = "tool"
    /\ \/ ReturnTool(p, "SUCCESS", document_query_tool)
       \/ Propagate(p, "BUILD_RETRIEVER")
    /\ UNCHANGED <<file, document_text, docs, embeddings, client, cleared, stored,
                   collection, out, overlapped, last>>

\* similarity search: the min(k, available) best records of the collection
Retrieve(coll) ==
    {S \in SUBSET coll :
        Cardinality(S) = (IF Cardinality(coll) < K THEN Cardinality(coll) ELSE K)}

\* rag_tool._run(query) by the caller, on a tool get_rag_tool returned
InvokeTool(p) ==
    /\ pc[p] = "returned"
    /\ \E q \in Queries :
         IF tool[p].name = "Error Tool"
         THEN out' = [inv |-> p, query |-> q, text |-> tool[p].msg, hits |-> {}]
         ELSE \E S \in Retrieve(collection) :
                 out' = [inv |-> p, query |-> q, text |-> <<>>, hits |-> S]
    /\ UNCHANGED <<pc, exit, file, document_text, docs, embeddings, client,
                   cleared, stored, tool, collection, overlapped, last>>

Next ==
    \E p \in Invocations :
        \/ ReadStage(p)
        \/ SplitStage(p)
        \/ InitEmbeddings(p)
        \/ Connect(p)
        \/ ClearOldData(p)
        \/ EmbedAndStore(p)
        \/ BuildRetriever(p)
        \/ CreateRetrieverTool(p)
        \/ InvokeTool(p)

Spec == Init /\ [][Next]_vars

---------------------------------------------------------------------------
(* Vocabulary of the properties                                            *)

Started(p) == pc[p] # "idle"
Finished(p) == pc[p] \in {"returned", "raised"}
ReturnedErrorTool(p) == pc[p] = "returned" /\ tool[p].name = "Error Tool"
ReturnedWorkingTool(p) == pc[p] = "returned" /\ tool[p].name = "document_query_tool"

\* The extraction of f fails: no file, no reader for it, or the reader raises.
ExtractionFails(f) ==
    \/ ~f.exists
    \/ lower(f.ext) \notin {".pdf", ".docx", ".txt"}
    \/ f.kind = "corrupt"

\* An existing, readable PDF or DOCX none of whose pages or paragraphs has text.
YieldsNoText(f) ==
    /\ f.exists
    /\ f.kind = "ok"
    /\ lower(f.ext) \in {".pdf", ".docx"}
    /\ \A i \in 1..Len(f.parts) : f.parts[i] = <<>>

\* The collection holds records of two different invocations.
Mixed ==
    \E e1, e2 \in collection : e1.inv # 0 /\ e2.inv # 0 /\ e1.inv # e2.inv

---------------------------------------------------------------------------
(* Properties                                                              *)

\* C1: every failure of get_rag_tool, at whatever stage, ends with the
\* function returning the Error Tool: an invocation that is over and has no
\* working tool has returned an Error Tool, and no exception left the function.
C1_EveryFailureReturnsErrorTool ==
    \A p \in Invocations :
        (Finished(p) /\ ~ReturnedWorkingTool(p)) =>
            (pc[p] # "raised" /\ ReturnedErrorTool(p))

\* C2: every extraction failure (missing file, unsupported extension, a
\* reader that raises) stops get_rag_tool at READ with the Error Tool that
\* returns the reader's message verbatim, and no record of the collection is
\* made from a failure message.
C2_ExtractionFailureStopsAtRead ==
    /\ \A p \in Invocations :
          (Started(p) /\ ExtractionFails(file[p])) =>
              /\ pc[p] = "returned"
              /\ exit[p] = "READ"
              /\ tool[p] = ReadErrorTool(_run(file[p]))
    /\ \A e \in collection : e.inv # 0 => ~ExtractionFails(file[e.inv])

\* C3 (as stated): once a document was ingested and then another invocation
\* has run, one after the other, the collection holds only records made by
\* the invocation that ran last.
C3_OnlyLastDocumentRemains ==
    ( /\ ~overlapped
      /\ last # 0
      /\ \A p \in Invocations : Started(p) => Finished(p)
      /\ \E a \in Invocations : a # last /\ ReturnedWorkingTool(a) )
    => \A e \in collection : e.inv = last

\* C3 (amended): with the invocations run one after the other, once the
\* latest one has completed delete_many the collection holds only records
\* made from its chunks.
C3_OnlyLastClearedDocumentRemains ==
    (~overlapped /\ last # 0 /\ cleared[last])
    => \A e \in collection : e.inv = last

\* C3 witness: A was ingested, then B, both got a working tool, and B's
\* chunks alone are in the collection.
C3_SecondIngestionReplacedFirst ==
    /\ ~overlapped
    /\ last # 0
    /\ ReturnedWorkingTool(last)
    /\ \E a \in Invocations : a # last /\ ReturnedWorkingTool(a)
    /\ collection # {}
    /\ \A e \in collection : e.inv = last

\* C4: whenever an invocation is over (it returned a tool or raised), the
\* MongoClient it opened is no longer open.
C4_ConnectionReleasedOnExit ==
    \A p \in Invocations : Finished(p) => client[p] # "open"

\* C5: for a file path that does not exist, whatever its extension,
\* get_rag_tool returns the Error Tool whose every call, with any query,
\* returns the file-not-found message of that path.
C5_MissingFileAlwaysReportsNotFound ==
    \A p \in Invocations :
        (Started(p) /\ ~file[p].exists) =>
            /\ ReturnedErrorTool(p)
            /\ tool[p].msg = FileNotFoundMessage(file[p])
            /\ out.inv = p =>
                  (out.text = FileNotFoundMessage(file[p]) /\ out.hits = {})

\* C5 witness: the Error Tool of a missing file with an unsupported
\* extension was called with a non-empty query.
C5_MissingUnsupportedFileQueried ==
    \E p \in Invocations :
        /\ Started(p)
        /\ ~file[p].exists
        /\ lower(file[p].ext) \notin {".pdf", ".docx", ".txt"}
        /\ out.inv = p
        /\ out.query # ""

\* C6: when the extracted text splits into no chunk, get_rag_tool returns
\* the Error Tool of the split stage and has neither built the embedding
\* model, nor opened a connection, nor cleared or written the collection.
C6_EmptyChunksExitBeforeStore ==
    \A p \in Invocations :
        ( /\ Started(p)
          /\ exit[p] # "READ"
          /\ split_documents(document_text[p], file[p].path) = <<>> )
        => /\ ~embeddings[p]
           /\ client[p] = "none"
           /\ ~cleared[p]
           /\ stored[p] = 0
           /\ pc[p] # "split" =>
                 (ReturnedErrorTool(p) /\ exit[p] = "SPLIT" /\ tool[p] = SplitErrorTool)

\* C6 witness: an empty text left at SPLIT while the collection still holds
\* the records of another invocation's successful ingestion.
C6_EmptyTextLeftAtSplit ==
    \E p, q \in Invocations :
        /\ exit[p] = "SPLIT"
        /\ document_text[p] = <<>>
        /\ ReturnedWorkingTool(q)
        /\ \E e \in collection : e.inv = q

\* C7: for a PDF or DOCX that yields no text the extractor reports an error
\* instead of an empty text, so the invocation ends at the READ stage.
C7_NoTextIsAnExtractionError ==
    \A p \in Invocations :
        (Started(p) /\ YieldsNoText(file[p])) =>
            /\ startswith_Error(document_text[p])
            /\ Finished(p) => exit[p] = "READ"

\* C8 (as stated): with serialized invocations there is no state in which
\* two invocations have a working tool and the collection holds chunks of
\* both, or one's tool serves only the other's chunks.
C8_SerializedNoMixNoForeignChunks ==
    ~overlapped =>
        ~ \E a, b \in Invocations :
            /\ a # b
            /\ ReturnedWorkingTool(a)
            /\ ReturnedWorkingTool(b)
            /\ \/ (\E e \in collection : e.inv = a) /\ (\E e \in collection : e.inv = b)
               \/ collection # {} /\ \A e \in collection : e.inv = b

\* C8 (amended): with serialized invocations the collection never holds
\* chunks of two invocations.
C8_SerializedNeverMixes ==
    ~overlapped => ~Mixed

\* C8 witness: the race; both invocations returned a working tool and the
\* collection holds chunks of both.
C8_RaceMixesBothDocuments ==
    \E a, b \in Invocations :
        /\ a # b
        /\ ReturnedWorkingTool(a)
        /\ ReturnedWorkingTool(b)
        /\ \E e \in collection : e.inv = a
        /\ \E e \in collection : e.inv = b

\* C9: get_rag_tool leaves at READ only when the extraction failed.
C9_ReadErrorOnlyWhenExtractionFailed ==
    \A p \in Invocations : exit[p] = "READ" => ExtractionFails(file[p])

\* C10: no step of an invocation that is in its READ or SPLIT stage changes
\* the collection.
C10_ReadAndSplitLeaveCollection ==
    [][\A p \in Invocations :
          (pc[p] \in {"idle", "split"} /\ pc'[p] # pc[p]) => collection' = collection]_vars

\* C10 witness: an invocation left at READ right after another one's
\* successful ingestion, whose records are all still in the collection.
C10_FailedReadAfterIngestion ==
    \E p, q \in Invocations :
        /\ ~overlapped
        /\ last = p
        /\ exit[p] = "READ"
        /\ ReturnedWorkingTool(q)
        /\ collection = {Entry(q, i, docs[q][i]) : i \in 1..Len(docs[q])}

====
